---- MODULE Spec2Model ----
(***************************************************************************)
(* MediaProcessor (src/MediaProcessor.py): the estimate-then-verify        *)
(* packing of images under a byte budget, and the writer that names the    *)
(* output files.                                                           *)
(*                                                                         *)
(* Strings are sequences of code points, so that str.lower(), the          *)
(* comparison of sort keys, the replacement of os.sep and os.path.splitext *)
(* are computed the way Python computes them.  A path is the pair          *)
(* <<os.path.relpath(os.path.dirname(p), source_dir), os.path.basename(p)>>*)
(* which is all the program reads of it.  The bytes an encode returns are  *)
(* represented by their length, the only thing the program reads of them.  *)
(* The status lines and the counter `processed` that only they read are    *)
(* left out.                                                               *)
(***************************************************************************)
EXTENDS Integers, Sequences, FiniteSets, TLC

\* ------------------------------------------------------------------ bounds
\* max_bytes ranges over 0..MaxBudget: a budget is a size in bytes (a negative
\* max_dir_size_gb selects nothing and returns at line 139)
MaxBudget == 3
MaxActual == 3

\* --------------------------------------------------------------- strings
Dot == 46
Sep == 47
Underscore == 95
Zero == 48

s_dot == <<46>>
s_root == <<114, 111, 111, 116>>
s_a_jpg == <<97, 46, 106, 112, 103>>
s_A_jpg == <<65, 46, 106, 112, 103>>

\* str.lower() on the code points the model uses (ASCII)
LowerChar(c) == IF c >= 65 /\ c <= 90 THEN c + 32 ELSE c

Lower(s) == [n \in 1..Len(s) |-> LowerChar(s[n])]

\* str.replace(old, new) for a one-character old and new
Replace(s, old, new) == [n \in 1..Len(s) |-> IF s[n] = old THEN new ELSE s[n]]

\* Python's str <=: lexicographic on code points, a proper prefix is smaller
RECURSIVE StrLE(_, _)
StrLE(s, t) ==
    IF s = <<>> THEN TRUE
    ELSE IF t = <<>> THEN FALSE
    ELSE IF Head(s) # Head(t) THEN Head(s) < Head(t)
    ELSE StrLE(Tail(s), Tail(t))

\* str(n) for n >= 0
RECURSIVE Str(_)
Str(n) == IF n < 10 THEN <<Zero + n>> ELSE Str(n \div 10) \o <<Zero + (n % 10)>>

\* f"{n:0{pad}d}"
RECURSIVE ZeroPad(_, _)
ZeroPad(s, pad) == IF Len(s) >= pad THEN s ELSE ZeroPad(<<Zero>> \o s, pad)

\* os.path.splitext on a name without directory part: the extension starts
\* at the last dot, unless only dots precede it
SplitExt(name) ==
    LET dots == {n \in 1..Len(name) : name[n] = Dot}
        last == IF dots = {} THEN 0 ELSE CHOOSE n \in dots : \A m \in dots : m <= n
    IN  IF last > 0 /\ \E m \in 1..(last - 1) : name[m] # Dot
        THEN <<SubSeq(name, 1, last - 1), SubSeq(name, last, Len(name))>>
        ELSE <<name, <<>> >>

\* ------------------------------------------------------------ the inputs
\* the files a scan can find: two names of the source root that differ in
\* case only, and the same name in a folder called "root", which gets the
\* folder_name of the source root
Paths ==
    { <<s_dot, s_a_jpg>>, <<s_dot, s_A_jpg>>, <<s_root, s_a_jpg>> }

OrigSizes == {0, 4, 8}

Qualities == {75}

\* the outcome of compress_image_to_bytes: len(data), or -1 for an exception
EncodeOutcomes == {-1} \cup (0..MaxActual)

RECURSIVE SumSizes(_)
SumSizes(items) == IF items = <<>> THEN 0 ELSE items[1][2] + SumSizes(Tail(items))

PathsOf(items) == {items[n][1] : n \in 1..Len(items)}

IndexOrders(n) == {p \in [1..n -> 1..n] : \A a, b \in 1..n : a # b => p[a] # p[b]}

\* every order random.shuffle can leave a list in
Shuffles(items) ==
    {[n \in 1..Len(items) |-> items[p[n]]] : p \in IndexOrders(Len(items))}

\* --------------------------------------------------------- Size Estimator
\* compression_factor = max(0.01, quality / 300.0) is max(3, quality) / 300
EstimatedSize(orig_size, q) ==
    (orig_size * (IF q > 3 THEN q ELSE 3)) \div 300

\* ------------------------------------------------------------------ state
VARIABLES
    pc,               \* where the run is
    quality,          \* settings.quality
    max_bytes,        \* int(max_dir_size_gb * 1024 ** 3)
    image_sizes,      \* list of <<path, original size>>
    i,                \* next index of the Selector's walk
    chosen_paths,     \* list of <<path, estimated size>>
    remaining_paths,  \* list of <<path, estimated size>>
    estimated_total,
    j,                \* next index of Pass A, then of Pass B
    chosen_actual,    \* list of <<path, len(data)>>
    actual_total,
    event,            \* what the last iteration of the pass did with its item
    chosen_sorted,
    k,                \* next index of the write loop
    count,
    files             \* compressed_dir: file name -> content

selector_vars == <<image_sizes, i, chosen_paths, estimated_total>>
pass_vars == <<j, chosen_actual, actual_total, event>>
writer_vars == <<chosen_sorted, k, count, files>>

vars == <<pc, quality, max_bytes, remaining_paths, selector_vars, pass_vars, writer_vars>>

\* the scans: every subset of Paths, every size of each file, in one
\* os.walk order (the order is lost in the shuffle)
RECURSIVE SeqsOver(_)
SeqsOver(ps) ==
    IF ps = {} THEN {<<>>}
    ELSE LET p == CHOOSE x \in ps : TRUE
         IN  {<< <<p, z>> >> \o rest : z \in OrigSizes, rest \in SeqsOver(ps \ {p})}

Scans == UNION {SeqsOver(ps) : ps \in SUBSET Paths}

\* a file of compressed_dir that an earlier run left
OldContent == [src |-> <<>>, len |-> 0, whole |-> TRUE]

\* "1_root_a.jpg" and "1_root_a_1.jpg"
s_1_root_a_jpg == <<49, 95>> \o s_root \o <<95>> \o s_a_jpg
s_1_root_a_1_jpg == <<49, 95>> \o s_root \o <<95, 97, 95, 49, 46, 106, 112, 103>>

\* what compressed_dir holds when the run starts
OldDirs == { {}, {s_1_root_a_jpg, s_1_root_a_1_jpg} }

Init ==
    /\ pc = "scanned"
    /\ quality \in Qualities
    /\ max_bytes \in 0..MaxBudget
    /\ image_sizes \in Scans
    /\ i = 1
    /\ chosen_paths = <<>>
    /\ remaining_paths = <<>>
    /\ estimated_total = 0
    /\ j = 1
    /\ chosen_actual = <<>>
    /\ actual_total = 0
    /\ event = "none"
    /\ chosen_sorted = <<>>
    /\ k = 1
    /\ count = 1
    /\ \E d \in OldDirs : files = [n \in d |-> OldContent]

\* ---------------------------------------------------------------- Selector
\* slips of line 102: the running total left out of the test; >= for >
FitsEstimate_IgnoresTotal(total, size, max) == ~(size > max)

FitsEstimate_Strict(total, size, max) == ~(total + size >= max)

\* line 102, negated: the item fits the estimated budget
FitsEstimate(total, size, max) == ~(total + size > max)

\* a slip of line 111: > for >=
SelectorFull_Strict(total, max) == total > max

\* line 111
SelectorFull(total, max) == total >= max

\* lines 66-68 and 95-98
Shuffle ==
    /\ pc = "scanned"
    /\ IF image_sizes = <<>>
       THEN pc' = "selected" /\ UNCHANGED image_sizes
       ELSE pc' = "walk" /\ image_sizes' \in Shuffles(image_sizes)
    /\ UNCHANGED <<quality, max_bytes, i, chosen_paths, remaining_paths, estimated_total>>
    /\ UNCHANGED <<pass_vars, writer_vars>>

\* one iteration of the loop of lines 100-112
SelectStep ==
    /\ pc = "walk"
    /\ i <= Len(image_sizes)
    /\ LET path == image_sizes[i][1]
           estimated_size == EstimatedSize(image_sizes[i][2], quality)
       IN  IF ~FitsEstimate(estimated_total, estimated_size, max_bytes)
           THEN /\ remaining_paths' = Append(remaining_paths, <<path, estimated_size>>)
                /\ i' = i + 1
                /\ UNCHANGED <<chosen_paths, estimated_total, pc>>
           ELSE /\ chosen_paths' = Append(chosen_paths, <<path, estimated_size>>)
                /\ estimated_total' = estimated_total + estimated_size
                /\ i' = i + 1
                /\ pc' = IF SelectorFull(estimated_total', max_bytes)
                         THEN "postpass" ELSE "walk"
                /\ UNCHANGED remaining_paths
    /\ UNCHANGED <<quality, max_bytes, image_sizes, pass_vars, writer_vars>>

\* the loop of lines 100-112 runs out of items
SelectEnd ==
    /\ pc = "walk"
    /\ i > Len(image_sizes)
    /\ pc' = "postpass"
    /\ UNCHANGED <<quality, max_bytes, remaining_paths, selector_vars, pass_vars,
                   writer_vars>>

\* lines 115-117 left out: the items behind an early stop are dropped
Unprocessed_Dropped(sizes, chosen, remaining, q) == remaining

\* lines 115-117: the paths in neither list, in the order of image_sizes
RECURSIVE Unprocessed(_, _, _, _)
Unprocessed(sizes, chosen, remaining, q) ==
    IF sizes = <<>> THEN remaining
    ELSE LET path == sizes[1][1]
             rem == IF path \notin PathsOf(chosen) /\ path \notin PathsOf(remaining)
                    THEN Append(remaining, <<path, EstimatedSize(sizes[1][2], q)>>)
                    ELSE remaining
         IN  Unprocessed(Tail(sizes), chosen, rem, q)

\* lines 114-122
PostPass ==
    /\ pc = "postpass"
    /\ remaining_paths' = Unprocessed(image_sizes, chosen_paths, remaining_paths, quality)
    /\ pc' = "selected"
    /\ UNCHANGED <<quality, max_bytes, selector_vars, pass_vars, writer_vars>>

\* ------------------------------------------------------- Verifier / Packer
\* a slip of lines 151 and 181: > for >=
PassStop_Strict(total, max) == total > max

\* lines 151 and 181: the budget is used up, the pass stops
PassStop(total, max) == total >= max

\* lines 155 and 184 left out: every item is encoded
SkipByEstimate_Never(total, est_size, max) == FALSE

\* lines 155 and 184: the estimate does not fit what is left of the budget
SkipByEstimate(total, est_size, max) == total + est_size > max

\* a slip of lines 163 and 189: the estimate trusted, the bytes not weighed
Overshoots_Unweighed(total, size, max) == total > max

\* lines 163 and 189: the encoded bytes do not fit what is left of the budget
Overshoots(total, size, max) == total + size > max

\* lines 170 and 195
PassFull(total, max) == total >= max

\* a slip of lines 172-174 and 197-198: break for continue
OnEncodeError_Breaks(total, out) ==
    [actual_total |-> total, chosen_actual |-> out, brk |-> TRUE, event |-> "error"]

\* lines 172-174 and 197-198: an exception of the encode skips the item
OnEncodeError(total, out) ==
    [actual_total |-> total, chosen_actual |-> out, brk |-> FALSE, event |-> "error"]

\* the body of the loop of Pass A, lines 149-174; enc is what the encode of
\* this item does (-1: raises)
PassABody(total, out, item, enc, max) ==
    IF PassStop(total, max)
    THEN [actual_total |-> total, chosen_actual |-> out,
          brk |-> TRUE, event |-> "stop"]
    ELSE IF SkipByEstimate(total, item[2], max)
    THEN [actual_total |-> total, chosen_actual |-> out,
          brk |-> FALSE, event |-> "prefilter"]
    ELSE IF enc = -1
    THEN OnEncodeError(total, out)
    ELSE IF Overshoots(total, enc, max)
    THEN [actual_total |-> total, chosen_actual |-> out,
          brk |-> FALSE, event |-> "overshoot"]
    ELSE [actual_total |-> total + enc,
          chosen_actual |-> Append(out, <<item[1], enc>>),
          brk |-> PassFull(total + enc, max), event |-> "commit"]

\* the body of the loop of Pass B, lines 180-198
PassBBody(total, out, item, enc, max) ==
    IF PassStop(total, max)
    THEN [actual_total |-> total, chosen_actual |-> out,
          brk |-> TRUE, event |-> "stop"]
    ELSE IF SkipByEstimate(total, item[2], max)
    THEN [actual_total |-> total, chosen_actual |-> out,
          brk |-> FALSE, event |-> "prefilter"]
    ELSE IF enc = -1
    THEN OnEncodeError(total, out)
    ELSE IF Overshoots(total, enc, max)
    THEN [actual_total |-> total, chosen_actual |-> out,
          brk |-> FALSE, event |-> "overshoot"]
    ELSE [actual_total |-> total + enc,
          chosen_actual |-> Append(out, <<item[1], enc>>),
          brk |-> PassFull(total + enc, max), event |-> "commit"]

\* line 177
PassBGuard(total, max, remaining) == total < max /\ remaining # <<>>

\* lines 135-146
ProcessStart ==
    /\ pc = "selected"
    /\ pc' = IF chosen_paths = <<>> THEN "returned" ELSE "passA"
    /\ UNCHANGED <<quality, max_bytes, remaining_paths, selector_vars, pass_vars,
                   writer_vars>>

PassAStep ==
    /\ pc = "passA"
    /\ j <= Len(chosen_paths)
    /\ \E enc \in EncodeOutcomes :
        LET r == PassABody(actual_total, chosen_actual, chosen_paths[j],
                           enc, max_bytes)
        IN  /\ actual_total' = r.actual_total
            /\ chosen_actual' = r.chosen_actual
            /\ event' = r.event
            /\ j' = IF r.event = "stop" THEN j ELSE j + 1
            /\ pc' = IF r.brk THEN "guardB" ELSE "passA"
    /\ UNCHANGED <<quality, max_bytes, remaining_paths, selector_vars, writer_vars>>

PassAEnd ==
    /\ pc = "passA"
    /\ j > Len(chosen_paths)
    /\ pc' = "guardB"
    /\ UNCHANGED <<quality, max_bytes, remaining_paths, selector_vars, pass_vars,
                   writer_vars>>

\* lines 177-178
StartPassB ==
    /\ pc = "guardB"
    /\ IF PassBGuard(actual_total, max_bytes, remaining_paths)
       THEN /\ remaining_paths' \in Shuffles(remaining_paths)
            /\ j' = 1
            /\ pc' = "passB"
       ELSE /\ pc' = "sort"
            /\ UNCHANGED <<remaining_paths, j>>
    /\ UNCHANGED <<quality, max_bytes, selector_vars, chosen_actual, actual_total,
                   event, writer_vars>>

PassBStep ==
    /\ pc = "passB"
    /\ j <= Len(remaining_paths)
    /\ \E enc \in EncodeOutcomes :
        LET r == PassBBody(actual_total, chosen_actual, remaining_paths[j],
                           enc, max_bytes)
        IN  /\ actual_total' = r.actual_total
            /\ chosen_actual' = r.chosen_actual
            /\ event' = r.event
            /\ j' = IF r.event = "stop" THEN j ELSE j + 1
            /\ pc' = IF r.brk THEN "sort" ELSE "passB"
    /\ UNCHANGED <<quality, max_bytes, remaining_paths, selector_vars, writer_vars>>

PassBEnd ==
    /\ pc = "passB"
    /\ j > Len(remaining_paths)
    /\ pc' = "sort"
    /\ UNCHANGED <<quality, max_bytes, remaining_paths, selector_vars, pass_vars,
                   writer_vars>>

\* ------------------------------------------------------------------ Writer
\* lines 205-206 and 216-217
FolderRel(path) == IF path[1] = s_dot THEN <<>> ELSE path[1]

\* lines 203-207
rel_folder_key(item) == <<Lower(FolderRel(item[1])), Lower(item[1][2])>>

\* Python's < on the key tuples
KeyLess(a, b) ==
    IF a[1] # b[1] THEN StrLE(a[1], b[1])
    ELSE a[2] # b[2] /\ StrLE(a[2], b[2])

\* sorted() is stable: an item goes behind the items whose key is not larger
InsertByKey(sorted, item) ==
    LET larger == {n \in 1..Len(sorted) :
                       KeyLess(rel_folder_key(item), rel_folder_key(sorted[n]))}
        at == IF larger = {} THEN Len(sorted) + 1
              ELSE CHOOSE n \in larger : \A m \in larger : n <= m
    IN  SubSeq(sorted, 1, at - 1) \o <<item>> \o SubSeq(sorted, at, Len(sorted))

RECURSIVE SortedPrefix(_, _)
SortedPrefix(items, n) ==
    IF n = 0 THEN <<>> ELSE InsertByKey(SortedPrefix(items, n - 1), items[n])

\* line 209 left out: the items are written in the order of their admission
Sorted_AsAdmitted(items) == items

\* line 209
Sorted(items) == SortedPrefix(items, Len(items))

\* line 211
Pad(items) == Len(Str(Len(items)))

\* lines 216-220
OutName(cnt, pad, path) ==
    LET folder_rel == FolderRel(path)
        folder_name == IF folder_rel # <<>> THEN Replace(folder_rel, Sep, Underscore)
                       ELSE s_root
    IN  ZeroPad(Str(cnt), pad) \o <<Underscore>> \o folder_name \o <<Underscore>> \o path[2]

\* lines 225-227
RECURSIVE FreeSuffix(_, _, _, _)
FreeSuffix(base_name, ext, suffix, names) ==
    IF (base_name \o <<Underscore>> \o Str(suffix) \o ext) \in names
    THEN FreeSuffix(base_name, ext, suffix + 1, names)
    ELSE suffix

\* lines 223-228 left out: the generated name is written to as it is
OutPath_Unchecked(out_name, names) == out_name

\* lines 221-228, as a name in compressed_dir
OutPath(out_name, names) ==
    IF out_name \in names
    THEN LET base_name == SplitExt(out_name)[1]
             ext == SplitExt(out_name)[2]
         IN  base_name \o <<Underscore>> \o Str(FreeSuffix(base_name, ext, 1, names)) \o ext
    ELSE out_name

\* open(out_path, 'wb') creates the file or truncates the one that is there
WriteFile(fs, name, content) ==
    [n \in DOMAIN fs \cup {name} |-> IF n = name THEN content ELSE fs[n]]

\* what one write does: done, open() raises, or f.write() raises in the
\* file that open() made
WriteOutcomes == {"ok", "fail", "partial"}

\* lines 200-213
SortStep ==
    /\ pc = "sort"
    /\ chosen_sorted' = Sorted(chosen_actual)
    /\ count' = 1
    /\ k' = 1
    /\ pc' = "write"
    /\ event' = "none"
    /\ UNCHANGED <<quality, max_bytes, remaining_paths, selector_vars, j, chosen_actual,
                   actual_total, files>>

\* one iteration of the loop of lines 215-239
WriteStep ==
    /\ pc = "write"
    /\ k <= Len(chosen_sorted)
    /\ LET orig_path == chosen_sorted[k][1]
           data == chosen_sorted[k][2]
           out_name == OutName(count, Pad(chosen_sorted), orig_path)
           out_path == OutPath(out_name, DOMAIN files)
       IN  \E w \in WriteOutcomes :
             /\ files' = CASE w = "ok" ->
                                WriteFile(files, out_path,
                                          [src |-> orig_path, len |-> data, whole |-> TRUE])
                           [] w = "partial" ->
                                WriteFile(files, out_path,
                                          [src |-> orig_path, len |-> data, whole |-> FALSE])
                           [] OTHER -> files
             /\ count' = IF w = "ok" THEN count + 1 ELSE count
    /\ k' = k + 1
    /\ UNCHANGED <<pc, quality, max_bytes, remaining_paths, selector_vars, pass_vars,
                   chosen_sorted>>

\* lines 241-242
Finish ==
    /\ pc = "write"
    /\ k > Len(chosen_sorted)
    /\ pc' = "finished"
    /\ UNCHANGED <<quality, max_bytes, remaining_paths, selector_vars, pass_vars,
                   writer_vars>>

Next ==
    \/ Shuffle \/ SelectStep \/ SelectEnd \/ PostPass
    \/ ProcessStart \/ PassAStep \/ PassAEnd \/ StartPassB \/ PassBStep \/ PassBEnd
    \/ SortStep \/ WriteStep \/ Finish

Spec == Init /\ [][Next]_vars

\* ------------------------------------------------ lines 177-198 as a whole
\* Pass B over rem from index n on; encs gives what the encode of each path
\* does; encodes counts the calls of compress_image_to_bytes
RECURSIVE PassBWalk(_, _, _, _, _, _, _)
PassBWalk(rem, n, total, out, encodes, encs, max) ==
    IF n > Len(rem)
    THEN [actual_total |-> total, chosen_actual |-> out, encodes |-> encodes]
    ELSE LET r == PassBBody(total, out, rem[n], encs[rem[n][1]], max)
             called == IF r.event \in {"error", "overshoot", "commit"} THEN 1 ELSE 0
         IN  IF r.brk
             THEN [actual_total |-> r.actual_total, chosen_actual |-> r.chosen_actual,
                   encodes |-> encodes + called]
             ELSE PassBWalk(rem, n + 1, r.actual_total, r.chosen_actual,
                            encodes + called, encs, max)

PassBRun(rem, total, out, encs, max) ==
    IF PassBGuard(total, max, rem)
    THEN PassBWalk(rem, 1, total, out, 0, encs, max)
    ELSE [actual_total |-> total, chosen_actual |-> out, encodes |-> 0]

\* ------------------------------------------------------------- the claims
Selected == pc \notin {"scanned", "walk", "postpass"}

EstimatedItems ==
    {<<image_sizes[n][1], EstimatedSize(image_sizes[n][2], quality)>> :
        n \in 1..Len(image_sizes)}

ItemsOf(items) == {items[n] : n \in 1..Len(items)}

EstimateOf(path) == (CHOOSE it \in EstimatedItems : it[1] = path)[2]

NothingWritten == \A n \in DOMAIN files : files[n] = OldContent

\* C1: the running actual total never exceeds budget_bytes at any point of
\* Pass A or Pass B, it is the sum of the actual sizes of the items admitted,
\* and so the final output set sums to at most budget_bytes
C1_ActualWithinBudget ==
    /\ actual_total <= max_bytes
    /\ actual_total = SumSizes(chosen_actual)
    /\ SumSizes(chosen_sorted) <= max_bytes

\* an item was encoded larger than its estimate and admitted, and another
\* was encoded and dropped because its bytes overshoot what is left
C1_Witness ==
    /\ event = "overshoot"
    /\ \E n \in 1..Len(chosen_actual) :
          chosen_actual[n][2] > EstimateOf(chosen_actual[n][1])

\* C2: on return from the Selector chosen and remaining partition the items:
\* each item is in exactly one of the two lists, once
C2_Partition ==
    Selected =>
        /\ ItemsOf(chosen_paths) \cup ItemsOf(remaining_paths) = EstimatedItems
        /\ PathsOf(chosen_paths) \cap PathsOf(remaining_paths) = {}
        /\ Len(chosen_paths) + Len(remaining_paths) = Len(image_sizes)
        /\ Cardinality(PathsOf(chosen_paths)) = Len(chosen_paths)
        /\ Cardinality(PathsOf(remaining_paths)) = Len(remaining_paths)

\* the walk stopped early, one item was turned down in the walk and another
\* was never visited
C2_Witness ==
    /\ pc = "selected"
    /\ i <= Len(image_sizes)
    /\ Len(remaining_paths) >= 2
    /\ chosen_paths # <<>>

\* C3: at every step of the walk and on return, the estimated sizes of the
\* chosen items sum to at most budget_bytes
C3_EstimateWithinBudget ==
    /\ SumSizes(chosen_paths) <= max_bytes
    /\ estimated_total = SumSizes(chosen_paths)

C3_Witness ==
    /\ pc = "walk"
    /\ Len(chosen_paths) >= 2
    /\ remaining_paths # <<>>
    /\ estimated_total > 0

\* C4: an encode that fails in Pass A or Pass B leaves the running total, the
\* output list and the files as they were and the pass goes on behind the
\* item; every step of a pass moves on in its list or leaves the pass, and
\* the passes are left towards the Writer only
C4_EncodeFailureSkips ==
    [][/\ (pc \in {"passA", "passB"} /\ j' = j + 1 /\ event' = "error")
            => /\ actual_total' = actual_total
               /\ chosen_actual' = chosen_actual
               /\ files' = files
               /\ pc' = pc
       /\ pc \in {"passA", "passB"}
            => \/ pc' = pc /\ j' = j + 1
               \/ pc' = (IF pc = "passA" THEN "guardB" ELSE "sort")
       /\ pc = "guardB" => pc' \in {"passB", "sort"}]_vars

\* encodes failed in Pass B, after Pass A admitted an item, and the run is
\* at the Writer
C4_Witness ==
    /\ pc = "sort"
    /\ event = "error"
    /\ chosen_actual # <<>>
    /\ j > Len(remaining_paths)
    /\ remaining_paths # <<>>

\* C5: every write creates a file that was not in compressed_dir and leaves
\* every file that was there as it was
C5_NoOverwrite ==
    [][files' # files =>
          /\ Cardinality(DOMAIN files' \ DOMAIN files) = 1
          /\ \A n \in DOMAIN files : files'[n] = files[n]]_vars

\* two items of one run got the same generated name, and are two files
C5_Witness ==
    /\ s_1_root_a_jpg \in DOMAIN files
    /\ s_1_root_a_1_jpg \in DOMAIN files
    /\ files[s_1_root_a_jpg].src = <<s_dot, s_a_jpg>>
    /\ files[s_1_root_a_1_jpg].src = <<s_root, s_a_jpg>>

\* the names the write loop gives when every write succeeds on free paths
PlannedNames(sorted) ==
    [n \in 1..Len(sorted) |-> OutName(n, Pad(sorted), sorted[n][1])]

OrderIndependent ==
    \A other \in Shuffles(chosen_actual) :
        /\ Sorted(other) = chosen_sorted
        /\ PlannedNames(Sorted(other)) = PlannedNames(chosen_sorted)

\* line 209 has just run; chosen_actual and chosen_sorted stay as they are
SortedNow == pc = "write" /\ k = 1

DistinctKeys(items) ==
    \A a, b \in 1..Len(items) :
        a # b => rel_folder_key(items[a]) # rel_folder_key(items[b])

\* C6, as stated: whatever the order in which Pass A and Pass B admitted the
\* items of the reconciled set, the write order and the names are the same
C6_Original == SortedNow => OrderIndependent

\* C6, amended: the same, for a reconciled set in which no two items have
\* the same case-folded (relative folder, filename)
C6_OrderIndependentOnDistinctKeys ==
    (SortedNow /\ DistinctKeys(chosen_actual)) => OrderIndependent

\* the items were admitted in another order than they are written in
C6_Witness ==
    /\ pc = "write"
    /\ Len(chosen_actual) >= 2
    /\ DistinctKeys(chosen_actual)
    /\ chosen_actual # chosen_sorted

\* C7: with a budget of 0 no item is committed, no file is written and the
\* run goes on to its end
C7_ZeroBudgetEmptyOutput ==
    max_bytes = 0 =>
        /\ chosen_actual = <<>>
        /\ chosen_sorted = <<>>
        /\ NothingWritten
        /\ pc \in {"returned", "finished"} \/ ENABLED Next

\* the Selector chose an item of estimated size 0 and the run went through
\* the passes and the Writer
C7_Witness ==
    /\ max_bytes = 0
    /\ pc = "finished"
    /\ chosen_paths # <<>>
    /\ remaining_paths # <<>>

\* C8, as stated: with a budget of 0 every item of estimated size 0 is in
\* chosen and every item of positive estimated size is in remaining
C8_Original ==
    (Selected /\ max_bytes = 0) =>
        \A it \in EstimatedItems :
            /\ it[2] = 0 => it \in ItemsOf(chosen_paths)
            /\ it[2] > 0 => it \in ItemsOf(remaining_paths)

\* C8, amended: with a budget of 0 every item of positive estimated size is
\* in remaining, and chosen holds the first item of estimated size 0 in
\* shuffle order and nothing else: the walk stops behind it
C8_ZeroBudgetFirstZero ==
    (Selected /\ max_bytes = 0) =>
        LET zeros == {n \in 1..Len(image_sizes) :
                          EstimatedSize(image_sizes[n][2], quality) = 0}
            first == CHOOSE n \in zeros : \A m \in zeros : n <= m
        IN  /\ \A it \in EstimatedItems : it[2] > 0 => it \in ItemsOf(remaining_paths)
            /\ chosen_paths = IF zeros = {} THEN <<>>
                              ELSE << <<image_sizes[first][1], 0>> >>

\* two items of estimated size 0, one chosen and one remaining
C8_Witness ==
    /\ pc = "selected"
    /\ max_bytes = 0
    /\ Len(chosen_paths) = 1
    /\ \E n \in 1..Len(remaining_paths) : remaining_paths[n][2] = 0

\* C9, as stated: every item left in remaining would exceed the budget if
\* it were added to chosen
C9_Original ==
    Selected =>
        \A n \in 1..Len(remaining_paths) :
            SumSizes(chosen_paths) + remaining_paths[n][2] > max_bytes

\* C9, amended: every item left in remaining would exceed the budget if it
\* were added to chosen, or has estimated size 0 while chosen sums to the
\* budget exactly
C9_MaximalButForZeros ==
    Selected =>
        \A n \in 1..Len(remaining_paths) :
            \/ SumSizes(chosen_paths) + remaining_paths[n][2] > max_bytes
            \/ remaining_paths[n][2] = 0 /\ SumSizes(chosen_paths) = max_bytes

\* the walk stopped early on a positive budget and left an item of estimated
\* size 0 and an item of positive size unvisited
C9_Witness ==
    /\ pc = "selected"
    /\ max_bytes > 0
    /\ i <= Len(image_sizes)
    /\ \E n \in 1..Len(remaining_paths) : remaining_paths[n][2] = 0
    /\ \E n \in 1..Len(remaining_paths) : remaining_paths[n][2] > 0

\* C10: when the Selector chooses nothing, every remaining item is estimated
\* above the budget, Pass B over any reshuffle of remaining and any outcome of
\* the encodes admits nothing and encodes nothing, and the early return
\* leaves the same empty output
C10_EarlyReturnIsPassB ==
    (pc \in {"selected", "returned"} /\ chosen_paths = <<>>) =>
        /\ \A n \in 1..Len(remaining_paths) : remaining_paths[n][2] > max_bytes
        /\ \A rem \in Shuffles(remaining_paths) :
             \A encs \in [PathsOf(remaining_paths) -> EncodeOutcomes] :
                LET b == PassBRun(rem, 0, <<>>, encs, max_bytes)
                IN  b.chosen_actual = <<>> /\ b.encodes = 0 /\ b.actual_total = 0
        /\ chosen_actual = <<>> /\ NothingWritten

\* the early return on a positive budget, with items that Pass B would walk
C10_Witness ==
    /\ pc = "returned"
    /\ max_bytes > 0
    /\ Len(remaining_paths) >= 2
====
